---------------------------- MODULE Spec2Model ----------------------------
(***************************************************************************)
(* Trending detection of news_bot.py: extract_keywords (lines 319-324)     *)
(* and detect_trending (lines 326-353).                                    *)
(*                                                                         *)
(* A title is a sequence of one-character strings, a word is a sequence of *)
(* characters, an article is a record with the 'title' key the code reads  *)
(* and a 'source' key that tells apart two reports with one headline.      *)
(* A cluster holds references to the caller's article objects; a reference *)
(* is modelled by the article's position in the input list.                *)
(***************************************************************************)
EXTENDS Integers, Sequences, FiniteSets, TLC

\* ------------------------------------------------------------------ bounds
\* Longest input list of a detect_trending call in Spec.
MaxArticles == 3
\* Most words of a generated title in KwSpec.
MaxWords == 2
\* Number of interleaved detect_trending calls in ConcSpec.
NumCallers == 2

\* ------------------------------------------------------------- characters
UpperCase == <<"A","B","C","D","E","F","G","H","I","J","K","L","M","N","O","P","Q","R","S","T","U","V","W","X","Y","Z">>
LowerCase == <<"a","b","c","d","e","f","g","h","i","j","k","l","m","n","o","p","q","r","s","t","u","v","w","x","y","z">>
Digits == <<"0","1","2","3","4","5","6","7","8","9">>

Range(s) == {s[i] : i \in DOMAIN s}

Max(a, b) == IF a >= b THEN a ELSE b

\* str.lower() on one character.
ToLower(ch) ==
  IF \E i \in DOMAIN UpperCase : UpperCase[i] = ch
  THEN LowerCase[CHOOSE i \in DOMAIN UpperCase : UpperCase[i] = ch]
  ELSE ch

\* str.lower()
lower(s) == [i \in DOMAIN s |-> ToLower(s[i])]

\* The class \w of the regular expression: letters, digits, underscore.
WordChars ==
  Range(UpperCase) \cup Range(LowerCase) \cup Range(Digits) \cup {"_"}

IsWordChar(ch) == ch \in WordChars

\* re.findall(r'\w+', s): the maximal runs of word characters, left to right.
\* cur is the run being read, acc the runs already closed.
RECURSIVE FindallFrom(_, _, _, _)
FindallFrom(s, i, cur, acc) ==
  IF i > Len(s)
  THEN IF cur = <<>> THEN acc ELSE Append(acc, cur)
  ELSE IF IsWordChar(s[i])
       THEN FindallFrom(s, i + 1, Append(cur, s[i]), acc)
       ELSE FindallFrom(s, i + 1, <<>>, IF cur = <<>> THEN acc ELSE Append(acc, cur))

findall(s) == FindallFrom(s, 1, <<>>, <<>>)

\* ------------------------------------------------------- extract_keywords
\* line 321
stop_words ==
  { <<"i","n">>, <<"o","n">>, <<"a","t">>, <<"t","h","e">>, <<"a">>,
    <<"a","n">>, <<"a","n","d">>, <<"o","r">>, <<"b","u","t">>, <<"o","f">>,
    <<"t","o">>, <<"f","o","r">>, <<"w","i","t","h">>, <<"f","r","o","m">>,
    <<"b","y">> }

\* A slip of the length test of line 323: len(w) >= 3.
IsKeywordLen3(w) == w \notin stop_words /\ Len(w) >= 3

\* line 323: the condition of the list comprehension.
IsKeyword(w) == w \notin stop_words /\ Len(w) > 3

\* A slip of line 322: the title is not lowercased.
WordsOfNoLower(t) == findall(t)

\* line 322
WordsOf(t) == findall(lower(t))

\* line 323
FilterWords(ws) == SelectSeq(ws, IsKeyword)

\* lines 319-324, the whole function
extract_keywords(t) == Range(FilterWords(WordsOf(t)))

\* ------------------------------------------------------------------ titles
\* "Metro rail fire"
T_MetroRailFire == <<"M","e","t","r","o"," ","r","a","i","l"," ","f","i","r","e">>
\* "METRO-RAIL: fire!"
T_MetroRailFireCaps == <<"M","E","T","R","O","-","R","A","I","L",":"," ","f","i","r","e","!">>
\* "Metro rail plan gets city council nod"
T_MetroPlanNod == <<"M","e","t","r","o"," ","r","a","i","l"," ","p","l","a","n"," ","g","e","t","s"," ","c","i","t","y"," ","c","o","u","n","c","i","l"," ","n","o","d">>
\* "City council plan vote"
T_CouncilVote == <<"C","i","t","y"," ","c","o","u","n","c","i","l"," ","p","l","a","n"," ","v","o","t","e">>
\* "City council metro rail"
T_CouncilMetro == <<"C","i","t","y"," ","c","o","u","n","c","i","l"," ","m","e","t","r","o"," ","r","a","i","l">>
\* "A Man In The City"
T_ManInTheCity == <<"A"," ","M","a","n"," ","I","n"," ","T","h","e"," ","C","i","t","y">>
\* "Man on the run"
T_ManOnTheRun == <<"M","a","n"," ","o","n"," ","t","h","e"," ","r","u","n">>
\* "Hyderabad Metro Expansion Announced Today"
T_Hyderabad == <<"H","y","d","e","r","a","b","a","d"," ","M","e","t","r","o"," ","E","x","p","a","n","s","i","o","n"," ","A","n","n","o","u","n","c","e","d"," ","T","o","d","a","y">>

\* The chunks generated titles are made of: stop-words and short words in
\* both cases, words with punctuation, digits and underscores.
Vocabulary ==
  { <<"A">>, <<"M","a","n">>, <<"I","n">>, <<"T","h","e">>, <<"C","i","t","y">>,
    <<"M","e","t","r","o",",">>, <<"b","y","_","p","a","s","s">>,
    <<"2","0","2","4">>, <<"W","I","T","H">>,
    <<"r","a","i","l","-","l","i","n","k">>, <<"n","e","w","s">>,
    <<"F","r","o","m">> }

\* The chunks of ws joined by single spaces.
RECURSIVE JoinWords(_)
JoinWords(ws) ==
  IF ws = <<>> THEN <<>>
  ELSE IF Len(ws) = 1 THEN ws[1]
  ELSE ws[1] \o <<" ">> \o JoinWords(Tail(ws))

SeqsUpTo(S, n) == UNION {[1..k -> S] : k \in 0..n}

FixedTitles ==
  { T_MetroRailFire, T_MetroRailFireCaps, T_MetroPlanNod, T_CouncilVote,
    T_CouncilMetro, T_ManInTheCity, T_ManOnTheRun, T_Hyderabad }

\* The titles extract_keywords is run on in KwSpec; <<>> is the empty title.
Titles == FixedTitles \cup {JoinWords(ws) : ws \in SeqsUpTo(Vocabulary, MaxWords)}

\* ---------------------------------------------------------------- articles
Art(t, s) == [title |-> t, source |-> s]

\* The articles a caller's input list is drawn from.
ArticlePool ==
  { Art(T_MetroRailFire, "A"), Art(T_MetroRailFire, "B"),
    Art(T_MetroRailFireCaps, "A"), Art(T_MetroPlanNod, "A"),
    Art(T_CouncilVote, "A"), Art(T_CouncilMetro, "A"),
    Art(T_ManInTheCity, "A"), Art(T_ManOnTheRun, "A"),
    Art(T_Hyderabad, "A") }

\* The input lists of the interleaved calls of ConcSpec.
ConcInputs ==
  { <<>>,
    <<Art(T_ManOnTheRun, "A")>>,
    <<Art(T_ManInTheCity, "A"), Art(T_MetroRailFire, "A"), Art(T_MetroRailFire, "B")>>,
    <<Art(T_MetroRailFire, "A"), Art(T_CouncilVote, "A"), Art(T_CouncilMetro, "A")>> }

\* Python's None, and the value of a name not yet bound.
None == [none |-> TRUE]
Unbound == [unbound |-> TRUE]

VARIABLES
  \* detect_trending, one entry per running call
  articles,          \* the argument: a list of articles
  article_clusters,  \* line 331: list of lists of references (positions)
  next_article,      \* position of the article the for loop of 333 takes next
  result,            \* the value returned
  ret_line,          \* the source line of the return statement taken
  pc,                \* where the call is
  \* extract_keywords, run on its own in KwSpec
  kw_title, kw_words, kw_keywords, kw_result, kw_pc

detect_vars == <<articles, article_clusters, next_article, result, ret_line, pc>>
kw_vars == <<kw_title, kw_words, kw_keywords, kw_result, kw_pc>>
vars == <<articles, article_clusters, next_article, result, ret_line, pc,
          kw_title, kw_words, kw_keywords, kw_result, kw_pc>>

Callers == DOMAIN pc

\* -------------------------------------------------------- detect_trending
\* A slip of line 340: the product truncated to an integer,
\* overlap >= max(2, int(len(keywords) * 0.4)).
AcceptsTruncated(overlap, nkeywords) ==
  overlap >= Max(2, (nkeywords * 4) \div 10)

\* A slip of line 340: the floor of two shared keywords left out,
\* overlap >= len(keywords) * 0.4.
AcceptsNoFloor(overlap, nkeywords) ==
  overlap * 10 >= nkeywords * 4

\* line 340: overlap >= max(2, len(keywords) * 0.4).  The product is a float
\* and is not rounded down.  Comparing the integer overlap with it is
\* comparing 10 * overlap with 4 * len: the double product is the exact
\* integer when len is a multiple of 5 and lies strictly between two integers
\* otherwise.
Accepts(overlap, nkeywords) ==
  overlap * 10 >= Max(2 * 10, nkeywords * 4)

\* A slip of line 338: the article is compared with the cluster's last
\* member, cluster[-1], not its first.
RECURSIVE ScanClustersLastMember(_, _, _, _)
ScanClustersLastMember(arts, clusters, keywords, j) ==
  IF j > Len(clusters) THEN 0
  ELSE LET cluster == clusters[j]
           cluster_keywords == extract_keywords(arts[cluster[Len(cluster)]].title)
           overlap == Cardinality(keywords \cap cluster_keywords)
       IN IF Accepts(overlap, Cardinality(keywords))
          THEN j
          ELSE ScanClustersLastMember(arts, clusters, keywords, j + 1)

\* lines 337-343: the scan of the clusters from position j on, for an article
\* with keyword set keywords; the position of the cluster that takes the
\* article, or 0 when the scan ends with matched = False.
RECURSIVE ScanClusters(_, _, _, _)
ScanClusters(arts, clusters, keywords, j) ==
  IF j > Len(clusters) THEN 0
  ELSE LET cluster == clusters[j]
           cluster_keywords == extract_keywords(arts[cluster[1]].title)
           overlap == Cardinality(keywords \cap cluster_keywords)
       IN IF Accepts(overlap, Cardinality(keywords))
          THEN j
          ELSE ScanClusters(arts, clusters, keywords, j + 1)

\* A slip of lines 341-346: the new cluster is put in front of the list.
PlaceArticleInFront(arts, clusters, i) ==
  LET keywords == extract_keywords(arts[i].title)
      j == ScanClusters(arts, clusters, keywords, 1)
  IN IF j # 0
     THEN [clusters EXCEPT ![j] = Append(@, i)]
     ELSE <<<<i>>>> \o clusters

\* lines 334-346: one iteration of the for loop, on the article at position i.
PlaceArticle(arts, clusters, i) ==
  LET keywords == extract_keywords(arts[i].title)
      j == ScanClusters(arts, clusters, keywords, 1)
  IN IF j # 0
     THEN [clusters EXCEPT ![j] = Append(@, i)]
     ELSE Append(clusters, <<i>>)

\* Insertion of cluster c into a list sorted by descending length, after the
\* clusters at least as long: what keeps the sort stable.
RECURSIVE InsertByLen(_, _)
InsertByLen(sorted, c) ==
  IF sorted = <<>> THEN <<c>>
  ELSE IF Len(sorted[1]) >= Len(c)
       THEN <<sorted[1]>> \o InsertByLen(Tail(sorted), c)
       ELSE <<c>> \o sorted

RECURSIVE SortFrom(_, _, _)
SortFrom(clusters, i, sorted) ==
  IF i > Len(clusters) THEN sorted
  ELSE SortFrom(clusters, i + 1, InsertByLen(sorted, clusters[i]))

\* A slip of line 348: an ascending sort (reverse=True forgotten).
RECURSIVE InsertByLenAscending(_, _)
InsertByLenAscending(sorted, c) ==
  IF sorted = <<>> THEN <<c>>
  ELSE IF Len(sorted[1]) <= Len(c)
       THEN <<sorted[1]>> \o InsertByLenAscending(Tail(sorted), c)
       ELSE <<c>> \o sorted

RECURSIVE SortAscendingFrom(_, _, _)
SortAscendingFrom(clusters, i, sorted) ==
  IF i > Len(clusters) THEN sorted
  ELSE SortAscendingFrom(clusters, i + 1, InsertByLenAscending(sorted, clusters[i]))

SortClustersAscending(clusters) == SortAscendingFrom(clusters, 1, <<>>)

\* line 348: list.sort(key=len, reverse=True), a stable sort: clusters of one
\* length keep the order they had.
SortClusters(clusters) == SortFrom(clusters, 1, <<>>)

\* lines 328-331
Call(c) ==
  /\ pc[c] = "call"
  /\ IF articles[c] = <<>>
     THEN /\ result' = [result EXCEPT ![c] = None]
          /\ ret_line' = [ret_line EXCEPT ![c] = 329]
          /\ pc' = [pc EXCEPT ![c] = "done"]
          /\ UNCHANGED <<article_clusters, next_article>>
     ELSE /\ article_clusters' = [article_clusters EXCEPT ![c] = <<>>]
          /\ next_article' = [next_article EXCEPT ![c] = 1]
          /\ pc' = [pc EXCEPT ![c] = "loop"]
          /\ UNCHANGED <<result, ret_line>>
  /\ UNCHANGED <<articles, kw_vars>>

\* lines 333-346: one iteration of the for loop
Iterate(c) ==
  /\ pc[c] = "loop"
  /\ next_article[c] <= Len(articles[c])
  /\ article_clusters' =
       [article_clusters EXCEPT
          ![c] = PlaceArticle(articles[c], @, next_article[c])]
  /\ next_article' = [next_article EXCEPT ![c] = @ + 1]
  /\ UNCHANGED <<articles, result, ret_line, pc, kw_vars>>

\* line 348, once the loop has taken every article
Sort(c) ==
  /\ pc[c] = "loop"
  /\ next_article[c] > Len(articles[c])
  /\ article_clusters' =
       [article_clusters EXCEPT ![c] = SortClusters(@)]
  /\ pc' = [pc EXCEPT ![c] = "return"]
  /\ UNCHANGED <<articles, next_article, result, ret_line, kw_vars>>

\* A slip of line 350: len(article_clusters[0]) > 1.
ReturnNeedsTwo(c) ==
  /\ pc[c] = "return"
  /\ IF article_clusters[c] # <<>> /\ Len(article_clusters[c][1]) > 1
     THEN /\ result' = [result EXCEPT
                          ![c] = articles[c][article_clusters[c][1][1]]]
          /\ ret_line' = [ret_line EXCEPT ![c] = 351]
     ELSE /\ result' = [result EXCEPT
                          ![c] = IF articles[c] # <<>> THEN articles[c][1]
                                 ELSE None]
          /\ ret_line' = [ret_line EXCEPT ![c] = 353]
  /\ pc' = [pc EXCEPT ![c] = "done"]
  /\ UNCHANGED <<articles, article_clusters, next_article, kw_vars>>

\* A slip of lines 350-353: the pick is kept in a module-level name that
\* every call writes, and each caller reads it back.
ReturnSharedResult(c) ==
  /\ pc[c] = "return"
  /\ result' = [x \in DOMAIN result |->
                  articles[c][article_clusters[c][1][1]]]
  /\ ret_line' = [ret_line EXCEPT ![c] = 351]
  /\ pc' = [pc EXCEPT ![c] = "done"]
  /\ UNCHANGED <<articles, article_clusters, next_article, kw_vars>>

\* lines 350-353
Return(c) ==
  /\ pc[c] = "return"
  /\ IF article_clusters[c] # <<>> /\ Len(article_clusters[c][1]) >= 1
     THEN /\ result' = [result EXCEPT
                          ![c] = articles[c][article_clusters[c][1][1]]]
          /\ ret_line' = [ret_line EXCEPT ![c] = 351]
     ELSE /\ result' = [result EXCEPT
                          ![c] = IF articles[c] # <<>> THEN articles[c][1]
                                 ELSE None]
          /\ ret_line' = [ret_line EXCEPT ![c] = 353]
  /\ pc' = [pc EXCEPT ![c] = "done"]
  /\ UNCHANGED <<articles, article_clusters, next_article, kw_vars>>

\* lines 333-346 as a whole: the clusters after the loop has taken the
\* articles from position i on.
RECURSIVE RunLoop(_, _, _)
RunLoop(arts, i, clusters) ==
  IF i > Len(arts) THEN clusters
  ELSE RunLoop(arts, i + 1, PlaceArticle(arts, clusters, i))

\* lines 326-353: the value of one call run from entry to return.
detect_trending(arts) ==
  IF arts = <<>> THEN None
  ELSE LET sorted == SortClusters(RunLoop(arts, 1, <<>>))
       IN IF sorted # <<>> /\ Len(sorted[1]) >= 1
          THEN arts[sorted[1][1]]
          ELSE arts[1]

\* ------------------------------------------------ extract_keywords, alone
\* line 322
KwFindall ==
  /\ kw_pc = "findall"
  /\ kw_words' = WordsOf(kw_title)
  /\ kw_pc' = "filter"
  /\ UNCHANGED <<kw_title, kw_keywords, kw_result, detect_vars>>

\* line 323
KwFilter ==
  /\ kw_pc = "filter"
  /\ kw_keywords' = FilterWords(kw_words)
  /\ kw_pc' = "return"
  /\ UNCHANGED <<kw_title, kw_words, kw_result, detect_vars>>

\* line 324
KwReturn ==
  /\ kw_pc = "return"
  /\ kw_result' = Range(kw_keywords)
  /\ kw_pc' = "done"
  /\ UNCHANGED <<kw_title, kw_words, kw_keywords, detect_vars>>

\* ----------------------------------------------------------- specifications
\* The calls of the set S, each entered with an input list of Inputs.
DetectInit(S, Inputs) ==
  /\ articles \in [S -> Inputs]
  /\ article_clusters = [c \in S |-> Unbound]
  /\ next_article = [c \in S |-> 0]
  /\ result = [c \in S |-> Unbound]
  /\ ret_line = [c \in S |-> 0]
  /\ pc = [c \in S |-> "call"]

KwIdle ==
  /\ kw_title = <<>>
  /\ kw_words = <<>>
  /\ kw_keywords = <<>>
  /\ kw_result = Unbound
  /\ kw_pc = "idle"

\* One call of detect_trending on any list of at most MaxArticles articles.
Init ==
  /\ DetectInit({1}, SeqsUpTo(ArticlePool, MaxArticles))
  /\ KwIdle

Next ==
  \/ \E c \in Callers : Call(c)
  \/ \E c \in Callers : Iterate(c)
  \/ \E c \in Callers : Sort(c)
  \/ \E c \in Callers : Return(c)

Spec == Init /\ [][Next]_vars

\* NumCallers calls of detect_trending, their steps interleaved in any order.
ConcInit ==
  /\ DetectInit(1..NumCallers, ConcInputs)
  /\ KwIdle

ConcSpec == ConcInit /\ [][Next]_vars

\* One call of extract_keywords on any title of Titles.
KwInit ==
  /\ DetectInit({}, {<<>>})
  /\ kw_title \in Titles
  /\ kw_words = <<>>
  /\ kw_keywords = <<>>
  /\ kw_result = Unbound
  /\ kw_pc = "findall"

KwNext == KwFindall \/ KwFilter \/ KwReturn

KwSpec == KwInit /\ [][KwNext]_vars


\* ------------------------------------------------------------- properties
\* The keyword set of the article at position p of caller c's input.
Kw(c, p) == extract_keywords(articles[c][p].title)

\* Caller c has bound article_clusters (line 331 has run).
HasClusters(c) == pc[c] # "call" /\ articles[c] # <<>>

\* The position of the cluster of caller c that holds input position p.
ClusterOf(c, p) ==
  CHOOSE j \in DOMAIN article_clusters[c] : p \in Range(article_clusters[c][j])

\* Position p is the first member of its cluster.
StartsCluster(c, p) ==
  \E j \in DOMAIN article_clusters[c] : article_clusters[c][j][1] = p

\* The step of caller c is one iteration of the for loop.
IsIteration(c) ==
  pc[c] = "loop" /\ next_article'[c] = next_article[c] + 1

\* The cluster list the first-fit rule gives for the article at position i,
\* when a cluster is eligible if Eligible(overlap, |k|) holds of its first
\* member's keyword set.
FirstFit(c, Eligible(_, _)) ==
  LET cl == article_clusters[c]
      i == next_article[c]
      k == Kw(c, i)
      M == {j \in DOMAIN cl :
              Eligible(Cardinality(k \cap Kw(c, cl[j][1])), Cardinality(k))}
  IN IF M = {}
     THEN Append(cl, <<i>>)
     ELSE LET first == CHOOSE j \in M : \A m \in M : j <= m
          IN [j \in DOMAIN cl |-> IF j = first THEN Append(cl[j], i) ELSE cl[j]]

FloorThreshold(overlap, n) == overlap >= Max(2, (n * 4) \div 10)
ExactThreshold(overlap, n) == overlap >= 2 /\ overlap * 10 >= n * 4

\* C1 as claimed: each iteration appends the article to the earliest-created
\* cluster whose first member shares at least max(2, floor(0.4 * |k|)) keywords
\* with it, or else starts a new cluster at the end of the list.
C1_FloorThreshold ==
  [][\A c \in Callers :
       IsIteration(c) => article_clusters'[c] = FirstFit(c, FloorThreshold)]_vars

\* C1 as amended: each iteration appends the article to the earliest-created
\* cluster whose first member shares at least max(2, 0.4 * |k|) keywords with
\* it (the product not rounded down), or else starts a new cluster at the end
\* of the list; |k| is the size of the incoming article's keyword set.
C1_FirstFit ==
  [][\A c \in Callers :
       IsIteration(c) => article_clusters'[c] = FirstFit(c, ExactThreshold)]_vars

\* An article with 6 keywords that shares exactly 2 with the first member of
\* an earlier cluster has started a cluster of its own, and another article
\* has joined an existing cluster.
C1_Witness ==
  \E c \in Callers :
    /\ HasClusters(c) /\ pc[c] = "loop"
    /\ \E p, q \in 1..(next_article[c] - 1) :
         /\ p < q /\ StartsCluster(c, p) /\ StartsCluster(c, q)
         /\ Cardinality(Kw(c, q)) = 6
         /\ Cardinality(Kw(c, p) \cap Kw(c, q)) = 2
    /\ \E j \in DOMAIN article_clusters[c] : Len(article_clusters[c][j]) >= 2

\* Cluster j of cl has the most members, and among the clusters with that
\* many members its first member is the earliest in the input.
IsTopCluster(cl, j) ==
  \A k \in DOMAIN cl :
    /\ Len(cl[k]) <= Len(cl[j])
    /\ Len(cl[k]) = Len(cl[j]) => cl[j][1] <= cl[k][1]

\* C2: for a non-empty input the call returns the first member of the
\* cluster with the most members, the earliest-created one on a tie.
C2_ReturnsTopCluster ==
  \A c \in Callers :
    (pc[c] = "done" /\ articles[c] # <<>>) =>
      LET cl == article_clusters[c]
      IN /\ \E j \in DOMAIN cl : IsTopCluster(cl, j)
         /\ \A j \in DOMAIN cl :
              IsTopCluster(cl, j) => result[c] = articles[c][cl[j][1]]

\* A call has returned the first member of a two-member cluster that was
\* created after a singleton cluster: the second article of the input, not
\* the first.
C2_Witness ==
  \E c \in Callers :
    /\ pc[c] = "done" /\ Len(articles[c]) >= 3
    /\ Len(article_clusters[c]) >= 2
    /\ Len(article_clusters[c][1]) = 2
    /\ article_clusters[c][1][1] = 2
    /\ result[c] = articles[c][2]
    /\ result[c] # articles[c][1]

\* C3: after every iteration of the loop the clusters partition the positions
\* taken so far, no cluster is empty, members are in input order, clusters are
\* in the order of their first members, and after the last iteration the
\* sizes sum to the number of articles.
RECURSIVE SumLen(_)
SumLen(cl) == IF cl = <<>> THEN 0 ELSE Len(cl[1]) + SumLen(Tail(cl))

C3_Partition ==
  \A c \in Callers :
    (HasClusters(c) /\ pc[c] = "loop") =>
      LET cl == article_clusters[c]
          n == next_article[c] - 1
      IN /\ \A p \in 1..n :
              Cardinality({jk \in {<<j, k>> : j \in DOMAIN cl, k \in 1..n} :
                             jk[2] \in DOMAIN cl[jk[1]]
                             /\ cl[jk[1]][jk[2]] = p}) = 1
         /\ \A j \in DOMAIN cl :
              /\ cl[j] # <<>>
              /\ \A k \in DOMAIN cl[j] : cl[j][k] \in 1..n
              /\ \A k \in 1..(Len(cl[j]) - 1) : cl[j][k] < cl[j][k + 1]
         /\ \A j \in 1..(Len(cl) - 1) : cl[j][1] < cl[j + 1][1]
         /\ n = Len(articles[c]) => SumLen(cl) = Len(articles[c])

\* The loop has taken the last of three articles and left a cluster of two
\* and a cluster of one.
C3_Witness ==
  \E c \in Callers :
    /\ HasClusters(c) /\ pc[c] = "loop"
    /\ Len(articles[c]) = 3 /\ next_article[c] = 4
    /\ Len(article_clusters[c]) = 2
    /\ \E j \in DOMAIN article_clusters[c] : Len(article_clusters[c][j]) = 2

\* The lowercase word "city".
W_city == <<"c","i","t","y">>

\* C4 as claimed: extract_keywords("A Man In The City") is the empty set.
C4_EmptySet ==
  (kw_pc = "done" /\ kw_title = T_ManInTheCity) => kw_result = {}

\* C4 as amended: extract_keywords("A Man In The City") is {"city"}: "city"
\* has length 4 and is no stop-word, and every other token of the title is a
\* stop-word or has length at most 3.
C4_OnlyCity ==
  (kw_pc = "done" /\ kw_title = T_ManInTheCity) =>
     /\ kw_result = {W_city}
     /\ \A w \in Range(kw_words) \ {W_city} : w \in stop_words \/ Len(w) <= 3

\* extract_keywords has returned for the title "A Man In The City".
C4_Witness == kw_pc = "done" /\ kw_title = T_ManInTheCity

\* The maximal runs of word characters of s, stated without a scan.
MaximalRuns(s) ==
  {SubSeq(s, ij[1], ij[2]) :
     ij \in {xy \in (DOMAIN s) \X (DOMAIN s) :
               /\ xy[1] <= xy[2]
               /\ \A k \in xy[1]..xy[2] : IsWordChar(s[k])
               /\ (xy[1] = 1 \/ ~IsWordChar(s[xy[1] - 1]))
               /\ (xy[2] = Len(s) \/ ~IsWordChar(s[xy[2] + 1]))}}

\* The 15 stop-words, in lowercase.
StopList15 ==
  { <<"i","n">>, <<"o","n">>, <<"a","t">>, <<"t","h","e">>, <<"a">>,
    <<"a","n">>, <<"a","n","d">>, <<"o","r">>, <<"b","u","t">>, <<"o","f">>,
    <<"t","o">>, <<"f","o","r">>, <<"w","i","t","h">>, <<"f","r","o","m">>,
    <<"b","y">> }

\* C5: the result is exactly the set of lowercased word tokens of the title
\* that are not among the 15 stop-words and have length at least 4; the empty
\* title gives the empty set, and the title "Hyderabad Metro Expansion
\* Announced Today" gives {hyderabad, metro, expansion, announced, today}.
\* The result being this function of the title, two calls on one title agree.
C5_ExactKeywords ==
  kw_pc = "done" =>
    /\ Cardinality(StopList15) = 15
    /\ kw_result = {w \in MaximalRuns(lower(kw_title)) :
                      w \notin StopList15 /\ Len(w) >= 4}
    /\ kw_title = <<>> => kw_result = {}
    /\ kw_title = T_Hyderabad =>
         kw_result = { <<"h","y","d","e","r","a","b","a","d">>,
                       <<"m","e","t","r","o">>,
                       <<"e","x","p","a","n","s","i","o","n">>,
                       <<"a","n","n","o","u","n","c","e","d">>,
                       <<"t","o","d","a","y">> }

\* extract_keywords has returned for a title with an uppercase stop-word, a
\* word with punctuation and more than one token.
C5_Witness ==
  /\ kw_pc = "done"
  /\ kw_title = <<"W","I","T","H">> \o <<" ">> \o <<"M","e","t","r","o",",">>
  /\ kw_result = {<<"m","e","t","r","o">>}

\* Positions p < q of caller c's input share at least 2 keywords, the overlap
\* is at least 0.4 * |k| for both keyword sets, and p started a cluster.
C6_Pair(c, p, q) ==
  LET ov == Cardinality(Kw(c, p) \cap Kw(c, q))
  IN /\ p < q
     /\ ov >= 2
     /\ ov * 10 >= 4 * Cardinality(Kw(c, p))
     /\ ov * 10 >= 4 * Cardinality(Kw(c, q))
     /\ StartsCluster(c, p)

\* Some cluster created before the one position p started accepts position q.
C6_EarlierAccepts(c, p, q) ==
  \E r \in 1..(p - 1) :
    /\ StartsCluster(c, r)
    /\ ExactThreshold(Cardinality(Kw(c, q) \cap Kw(c, r)), Cardinality(Kw(c, q)))

\* C6 as claimed: two such articles end in the same cluster whatever else the
\* input holds.
C6_SameCluster ==
  \A c \in Callers :
    (HasClusters(c) /\ pc[c] \in {"return", "done"}) =>
      \A p, q \in DOMAIN articles[c] :
        C6_Pair(c, p, q) => ClusterOf(c, p) = ClusterOf(c, q)

\* C6 as amended: two such articles end in the same cluster unless a cluster
\* created before the earlier article's accepts the later article first.
C6_SameClusterFirstFit ==
  \A c \in Callers :
    (HasClusters(c) /\ pc[c] \in {"return", "done"}) =>
      \A p, q \in DOMAIN articles[c] :
        (C6_Pair(c, p, q) /\ ~C6_EarlierAccepts(c, p, q)) =>
           ClusterOf(c, p) = ClusterOf(c, q)

\* Such a pair ended in one cluster that was not the first created: the
\* later article was compared with an earlier cluster and passed on.
C6_Witness ==
  \E c \in Callers :
    /\ HasClusters(c) /\ pc[c] = "done"
    /\ \E p, q \in DOMAIN articles[c] :
         /\ p > 1
         /\ C6_Pair(c, p, q) /\ ~C6_EarlierAccepts(c, p, q)
         /\ ClusterOf(c, p) = ClusterOf(c, q)

\* C7 as claimed: two members of one cluster always share at least 2 keywords.
C7_AnyTwoMembers ==
  \A c \in Callers :
    HasClusters(c) =>
      \A j \in DOMAIN article_clusters[c] :
        \A p, q \in Range(article_clusters[c][j]) :
          p # q => Cardinality(Kw(c, p) \cap Kw(c, q)) >= 2

\* C7 as amended: every member of a cluster other than its first shares at
\* least 2 keywords with the cluster's first member.
C7_WithFirstMember ==
  \A c \in Callers :
    HasClusters(c) =>
      \A j \in DOMAIN article_clusters[c] :
        \A p \in Range(article_clusters[c][j]) \ {article_clusters[c][j][1]} :
          Cardinality(Kw(c, p) \cap Kw(c, article_clusters[c][j][1])) >= 2

\* An article with a single keyword sits in a cluster of its own although an
\* earlier cluster's first member has that keyword, and another cluster has
\* two members.
C7_Witness ==
  \E c \in Callers :
    /\ HasClusters(c) /\ pc[c] = "done"
    /\ \E p, q \in DOMAIN articles[c] :
         /\ p < q /\ StartsCluster(c, p) /\ StartsCluster(c, q)
         /\ Cardinality(Kw(c, q)) = 1
         /\ Kw(c, q) \subseteq Kw(c, p)
    /\ \E j \in DOMAIN article_clusters[c] : Len(article_clusters[c][j]) = 2

\* C8: an article with no keywords is always alone in its cluster.
C8_EmptyKeywordsSingleton ==
  \A c \in Callers :
    HasClusters(c) =>
      \A j \in DOMAIN article_clusters[c] :
        \A p \in Range(article_clusters[c][j]) :
          Kw(c, p) = {} => article_clusters[c][j] = <<p>>

\* A call has ended with two articles without keywords, the first of them
\* first in the input, each alone in its cluster, and a third article.
C8_Witness ==
  \E c \in Callers :
    /\ pc[c] = "done" /\ Len(articles[c]) = 3
    /\ Kw(c, 1) = {} /\ Kw(c, 2) # {} /\ Kw(c, 3) = {}
    /\ Len(article_clusters[c]) = 3

\* C9: the call returns None exactly for the empty input, the article itself
\* for a one-article input, and for every non-empty input one of the input
\* articles, by the return of line 351 with a non-empty cluster list: the
\* fallback of line 353 is never taken.
C9_ReturnValue ==
  \A c \in Callers :
    /\ pc[c] = "done" =>
         /\ result[c] = None <=> articles[c] = <<>>
         /\ Len(articles[c]) = 1 => result[c] = articles[c][1]
         /\ articles[c] # <<>> => result[c] \in Range(articles[c])
         /\ articles[c] # <<>> => ret_line[c] = 351
         /\ ret_line[c] # 353
    /\ (pc[c] \in {"return", "done"} /\ articles[c] # <<>>) =>
         article_clusters[c] # <<>>

\* A call on three articles has returned one that is not the first.
C9_Witness ==
  \E c \in Callers :
    /\ pc[c] = "done" /\ Len(articles[c]) = 3
    /\ result[c] # articles[c][1]
    /\ ret_line[c] = 351

\* C10: with the steps of the calls interleaved in any order, each call
\* returns what it returns run alone on its input, and no step changes any
\* call's input list or an article in it.
C10_NoInterference ==
  /\ [](\A c \in Callers :
          pc[c] = "done" => result[c] = detect_trending(articles[c]))
  /\ [][articles' = articles]_vars

\* One call has returned an article while another call, on a different
\* input, is in the middle of its loop.
C10_Witness ==
  \E c, d \in Callers :
    /\ pc[c] = "done" /\ result[c] # None
    /\ pc[d] = "loop" /\ next_article[d] = 2
    /\ articles[c] # articles[d]

=============================================================================
